---- MODULE Spec2Model ----
(***************************************************************************)
(* Kalman-filter insect tracking (kalman-filter-tracking.py).              *)
(*                                                                         *)
(* The model follows KalmanFilterCLI.track_insects_one_file: one action    *)
(* per iteration of the frame loop (predict, cost matrix, assignment,      *)
(* update, birth, prune, register) and one action for the code after the   *)
(* loop (filter, sort, direction counters).  Around it: track_insects      *)
(* taking or skipping a file, a second run of the same engine on the same  *)
(* file, a call of ellipse_quad on its own, and track_insects over the     *)
(* files of a folder with the two reports it appends to.  The reader of    *)
(* the text report (tracking-gui.py: format_time, parse_tracking_data) is  *)
(* modelled beside it.                                                     *)
(*                                                                         *)
(* Numbers.  The program computes in float64.  The model computes in fixed *)
(* point: filter positions and velocities in units of 1/PosScale pixel,    *)
(* covariances in units of 1/CovScale.  Detections are whole pixels.  The  *)
(* constant-velocity filter has the same 2x2 covariance on the x and on    *)
(* the y axis (F, H, Q, R and the initial P are the same on both and do    *)
(* not couple them), so P is kept as <<p11, p12, p22>>.                     *)
(*                                                                         *)
(* Track dicts are shared between the lists `tracks` and `all_tracks`: the *)
(* model keeps the dicts in `objs` and the lists hold their addresses.     *)
(* Intermediate values of an action are bound with \E x \in {e} so that    *)
(* each is computed once.                                                  *)
(***************************************************************************)
EXTENDS Integers, Sequences, FiniteSets, TLC

VARIABLES
    pc,                       \* "loop": in the frame loop; "done": after line 291;
                              \* "error": an exception left the run; "file",
                              \* "skipped": track_insects on one file; "files",
                              \* "idle": track_insects in and after the loop
                              \* over the folder; "call", "returned": a function
                              \* called on its own; "reading": the loop of
                              \* parse_tracking_data
    frame,                    \* the loop variable of line 226
    start_frame,              \* self.start_frame
    end_frame,                \* self.end_frame
    max_frames_before_death,  \* self.max_frames_before_death
    ellipse,                  \* self.ellipse
    feed,                     \* the per-frame detection lists self.df can hold
    record_count,             \* rows of self.df read by the loop so far
    objs,                     \* every track dict created, by address (1..Len)
    tracks,                   \* local list `tracks`: addresses of the active dicts
    all_tracks,               \* local list `all_tracks`: addresses, the registry
    track_id,                 \* local counter `track_id`
    self_all_tracks,          \* self.all_tracks after line 280 (track dicts)
    counter,                  \* self.counter
    directions,               \* track_direction of line 288, per survivor
    step,                     \* what the last loop iteration did (history)
    mode,                     \* "single": one run; "record": a run that will be
                              \* repeated; "replay": its repetition
    log,                      \* per frame of a recorded run: the rows read, the
                              \* cost matrix and what linear_sum_assignment returned
    first,                    \* the outcome of the recorded run (history)
    arg_pos,                  \* argument `pos` of a call of ellipse_quad
    ret_quad,                 \* what that call returned
    csv_files,                \* self.csv_files: the files of the folder, in order
    file_index,               \* position of the loop of line 177 in csv_files
    stats_csv,                \* the rows of track-stats.csv
    stats_txt,                \* the blocks of track-stats.txt
    ran,                      \* what track_insects did with each file (history)
    calls,                    \* invocations of track_insects so far
    time_arg,                 \* argument `time` of a call of format_time
    time_ret,                 \* what that call returned
    parse                     \* the locals of parse_tracking_data

vars == <<pc, frame, start_frame, end_frame, max_frames_before_death, ellipse,
          feed, record_count, objs, tracks, all_tracks, track_id,
          self_all_tracks, counter, directions, step, mode, log, first, arg_pos, ret_quad,
          csv_files, file_index, stats_csv, stats_txt, ran, calls, time_arg, time_ret,
          parse>>

\* the state of track_insects around a run, and of the report reader
folderVars == <<csv_files, file_index, stats_csv, stats_txt, ran, calls>>

guiVars == <<time_arg, time_ret, parse>>

\* Python's None, where a date, a time or a field is expected
None == <<>>

\* a value that is not None
Some(v) == <<v>>

\* Python's {}
EmptyDict == [k \in {} |-> None]

\* the locals of parse_tracking_data at line 36, and the lines read (history)
NoParse ==
    [tracking_data |-> EmptyDict, current_date |-> None, current_time |-> None,
     current_data |-> EmptyDict, lines |-> <<>>]

\* track_insects is not running and no report has been written
NoFolder ==
    /\ csv_files = <<>>
    /\ file_index = 0
    /\ stats_csv = <<>>
    /\ stats_txt = <<>>
    /\ ran = <<>>
    /\ calls = 0

\* format_time and parse_tracking_data are not running
NoGui ==
    /\ time_arg = None
    /\ time_ret = None
    /\ parse = NoParse

----------------------------------------------------------------------------
(* Bounds of the model *)

\* end_frame - start_frame ranges over MinFrameSpan..MaxSpan
MaxSpan == 5

\* end_frame - start_frame of the two-lane feed
LaneSpan == 6

\* max_frames_before_death ranges over 0..MaxDeath
MaxDeath == 1

\* the folder holds up to MaxFiles files
MaxFiles == 2

\* track_insects is called up to MaxCalls times on the folder
MaxCalls == 2

----------------------------------------------------------------------------
(* Program constants *)

distance_threshold == 50

DefaultMaxFramesBeforeDeath == 20

\* load_csv: at least 5 records, frame span at least 5
MinRecords == 5

MinFrameSpan == 5

\* line 277: len(positions) > 5 and distance > 100
MinPositions == 5

MinDistance == 100

\* kf.P *= 1000 (the initial covariance is 1000 * I)
InitialCovariance == 1000

\* fixed-point resolution of positions (units per pixel) and covariances
PosScale == 10

CovScale == 10000

\* process_noise = 1e-4 and measurement_noise = 0.1, in covariance units
process_noise == CovScale \div 10000

measurement_noise == CovScale \div 10

MaxInt == 2147483647

----------------------------------------------------------------------------
(* Arithmetic *)

\* <<q, r>> with a * b = q * c + r and 0 <= r < c, for 0 <= a < c, b >= 0,
\* without forming a product that leaves 32 bits
RECURSIVE MulDivQR(_, _, _)
MulDivQR(a, b, c) ==
    IF b = 0 THEN <<0, 0>>
    ELSE LET h  == MulDivQR(a, b \div 2, c)
             d  == IF 2 * h[2] >= c THEN <<2 * h[1] + 1, 2 * h[2] - c>>
                                    ELSE <<2 * h[1], 2 * h[2]>>
         IN  IF b % 2 = 0 THEN d
             ELSE IF d[2] >= c - a THEN <<d[1] + 1, d[2] - (c - a)>>
                                   ELSE <<d[1], d[2] + a>>

\* floor(a * b / c) for a, b >= 0 and c > 0
MulDiv(a, b, c) ==
    IF b = 0 \/ a <= MaxInt \div b
      THEN (a * b) \div c
      ELSE (a \div c) * b + MulDivQR(a % c, b, c)[1]

\* floor(p * |y| / s) with the sign of y
Gain(p, y, s) == IF y >= 0 THEN MulDiv(p, y, s) ELSE -MulDiv(p, -y, s)

RECURSIVE IsqrtIn(_, _, _)
IsqrtIn(n, lo, hi) ==
    IF lo >= hi THEN lo
    ELSE LET mid == (lo + hi + 1) \div 2
         IN  IF mid * mid <= n THEN IsqrtIn(n, mid, hi) ELSE IsqrtIn(n, lo, mid - 1)

\* floor(sqrt(n))
Isqrt(n) == IsqrtIn(n, 0, 46340)

----------------------------------------------------------------------------
(* The constant-velocity Kalman filter of a track (kf_new, lines 259-265) *)

\* kf_new.x = [obs.x, obs.y, 0, 0]; kf_new.P = kf.P = 1000 * I
NewFilter(obs) ==
    [x |-> <<obs[1] * PosScale, obs[2] * PosScale, 0, 0>>,
     P |-> <<InitialCovariance * CovScale, 0, InitialCovariance * CovScale>>]

\* kf.predict(): x <- F x, P <- F P F' + Q, with F = [[1,0,1,0],[0,1,0,1],[0,0,1,0],[0,0,0,1]]
Predict(kf) ==
    [x |-> <<kf.x[1] + kf.x[3], kf.x[2] + kf.x[4], kf.x[3], kf.x[4]>>,
     P |-> <<kf.P[1] + 2 * kf.P[2] + kf.P[3] + process_noise,
             kf.P[2] + kf.P[3],
             kf.P[3] + process_noise>>]

\* kf.update(z): y = z - H x, S = H P H' + R, K = P H' / S, x <- x + K y,
\* P <- (I - K H) P (the value of filterpy's Joseph form for this K)
Update(kf, obs) ==
    LET s  == kf.P[1] + measurement_noise
        yx == obs[1] * PosScale - kf.x[1]
        yy == obs[2] * PosScale - kf.x[2]
    IN  [x |-> <<kf.x[1] + Gain(kf.P[1], yx, s),
                 kf.x[2] + Gain(kf.P[1], yy, s),
                 kf.x[3] + Gain(kf.P[2], yx, s),
                 kf.x[4] + Gain(kf.P[2], yy, s)>>,
         P |-> <<MulDiv(kf.P[1], measurement_noise, s),
                 MulDiv(kf.P[2], measurement_noise, s),
                 kf.P[3] - MulDiv(kf.P[2], kf.P[2], s)>>]

\* np.linalg.norm(track['kf'].x[:2] - obs), in units of 1/PosScale
Norm(kf, obs) ==
    LET dx == obs[1] * PosScale - kf.x[1]
        dy == obs[2] * PosScale - kf.x[2]
    IN  Isqrt(dx * dx + dy * dy)

----------------------------------------------------------------------------
(* Track dicts *)

\* line 266: the dict of a new track
NewTrack(obs, id, f) ==
    [kf |-> NewFilter(obs), id |-> id, last_seen |-> 0,
     positions |-> <<obs>>, distance |-> 0, frame_ids |-> <<f>>]

\* lines 231-232
PredictTrack(t) ==
    [t EXCEPT !.kf = Predict(t.kf), !.last_seen = t.last_seen + 1]

\* variant: a match that does not reset last_seen
UpdateTrackNoReset(t, obs, cost, f) ==
    [t EXCEPT !.kf = Update(t.kf, obs),
              !.positions = Append(t.positions, obs),
              !.distance = t.distance + cost,
              !.frame_ids = Append(t.frame_ids, f)]

\* variant: a match that does not append the frame id
UpdateTrackNoFrameId(t, obs, cost, f) ==
    [t EXCEPT !.kf = Update(t.kf, obs),
              !.last_seen = 0,
              !.positions = Append(t.positions, obs),
              !.distance = t.distance + cost]

\* variant: a match that appends the frame of the previous position again
UpdateTrackStaleFrame(t, obs, cost, f) ==
    [t EXCEPT !.kf = Update(t.kf, obs),
              !.last_seen = 0,
              !.positions = Append(t.positions, obs),
              !.distance = t.distance + cost,
              !.frame_ids = Append(t.frame_ids, t.frame_ids[Len(t.frame_ids)])]

\* variant: a match that stores the cost as the distance
UpdateTrackSetsDistance(t, obs, cost, f) ==
    [t EXCEPT !.kf = Update(t.kf, obs),
              !.last_seen = 0,
              !.positions = Append(t.positions, obs),
              !.distance = cost,
              !.frame_ids = Append(t.frame_ids, f)]

\* lines 248-252
UpdateTrack(t, obs, cost, f) ==
    [t EXCEPT !.kf = Update(t.kf, obs),
              !.last_seen = 0,
              !.positions = Append(t.positions, obs),
              !.distance = t.distance + cost,
              !.frame_ids = Append(t.frame_ids, f)]

\* variant: the threshold test with <= for <
AcceptAtThreshold(cost) == cost <= distance_threshold * PosScale

\* line 247: the test that accepts a proposed pair
Accept(cost) == cost < distance_threshold * PosScale

\* variant: track_id is not advanced
NextTrackIdStuck(id) == id

\* line 267
NextTrackId(id) == id + 1

\* variant: the age test with < for <=
AliveBelow(t) == t.last_seen < max_frames_before_death

\* variant: no track is ever dropped
AliveAlways(t) == TRUE

\* line 270: the test that keeps a track in the active list
Alive(t) == t.last_seen <= max_frames_before_death

----------------------------------------------------------------------------
(* Assignment (scipy.optimize.linear_sum_assignment) *)

\* lines 235-238: cost_matrix[i, j] for active track i and detection j
CostMatrix(os, ts, observations) ==
    [i \in 1..Len(ts), j \in 1..Len(observations) |->
        Norm(os[ts[i]].kf, observations[j])]

\* the one-to-one pairings of min(n, m) pairs between rows 1..n and columns 1..m
Pairings(n, m) ==
    IF n <= m
      THEN { {<<i, f[i]>> : i \in 1..n} :
               f \in {g \in [1..n -> 1..m] :
                        \A a, b \in 1..n : a # b => g[a] # g[b]} }
      ELSE { {<<f[j], j>> : j \in 1..m} :
               f \in {g \in [1..m -> 1..n] :
                        \A a, b \in 1..m : a # b => g[a] # g[b]} }

RECURSIVE TotalCost(_, _)
TotalCost(cost, pairs) ==
    IF pairs = {} THEN 0
    ELSE LET p == CHOOSE q \in pairs : TRUE
         IN  cost[p[1], p[2]] + TotalCost(cost, pairs \ {p})

\* the least element of a non-empty set of numbers
Min(S) == CHOOSE x \in S : \A y \in S : x <= y

\* variant: any one-to-one pairing, whatever its cost
AnyAssignment(cost, n, m) == Pairings(n, m)

\* line 241: the pairings linear_sum_assignment can return: every pairing of
\* minimum total cost (which one of several is left to scipy)
LinearSumAssignment(cost, n, m) ==
    LET totals == [p \in Pairings(n, m) |-> TotalCost(cost, p)]
        best   == Min({totals[p] : p \in Pairings(n, m)})
    IN  {p \in Pairings(n, m) : totals[p] = best}

----------------------------------------------------------------------------
(* One iteration of the frame loop, lines 226-275 *)

Range(s) == {s[i] : i \in 1..Len(s)}

\* lines 230-232: predict every active track
PredictAll(os, ts) ==
    [a \in 1..Len(os) |-> IF a \in Range(ts) THEN PredictTrack(os[a]) ELSE os[a]]

\* lines 246-254: the proposed pairs whose cost passes the test of line 247
Accepted(proposed) == {p \in proposed : Accept(p.cost)}

\* lines 248-252 applied to the track of every accepted pair
UpdateAll(os, accepted, observations, f) ==
    [a \in 1..Len(os) |->
        IF \E p \in accepted : p.track = a
          THEN LET p == CHOOSE q \in accepted : q.track = a
               IN  UpdateTrack(os[a], observations[p.j], p.cost, f)
          ELSE os[a]]

\* variant: every detection counts as unassigned
UnassignedAll(accepted, observations) == [j \in 1..Len(observations) |-> j]

\* lines 257-258: the detections not in assigned_observations, in index order
Unassigned(accepted, observations) ==
    SelectSeq([j \in 1..Len(observations) |-> j],
              LAMBDA j : \A p \in accepted : p.j # j)

\* variant: only the first unassigned detection gets a track
BornFirstOnly(js, observations, id, f) ==
    IF js = <<>> THEN <<>> ELSE <<NewTrack(observations[Head(js)], id, f)>>

\* lines 259-267: the dicts appended for the unassigned detections js
RECURSIVE Born(_, _, _, _)
Born(js, observations, id, f) ==
    IF js = <<>> THEN <<>>
    ELSE <<NewTrack(observations[Head(js)], id, f)>>
         \o Born(Tail(js), observations, NextTrackId(id), f)

\* track_id after k births
RECURSIVE IdAfter(_, _)
IdAfter(id, k) == IF k = 0 THEN id ELSE IdAfter(NextTrackId(id), k - 1)

\* line 270
Prune(os, ts) == SelectSeq(ts, LAMBDA a : Alive(os[a]))

\* variant: the active tracks are appended without the membership test
RegisterAll(reg, ts, os) == reg \o ts

\* lines 272-275: append the active tracks whose id is not yet in all_tracks
RECURSIVE Register(_, _, _)
Register(reg, ts, os) ==
    IF ts = <<>> THEN reg
    ELSE Register(IF os[Head(ts)].id \in {os[r].id : r \in Range(reg)}
                    THEN reg ELSE Append(reg, Head(ts)),
                  Tail(ts), os)

\* lines 99-115: what load_csv accepted; the rows are read frame by frame.
\* min and max of video_frame_id are start_frame and end_frame, so both
\* frames hold a row, and there are at least MinRecords rows in all.
MaxRowsPerFrame ==
    CHOOSE k \in {Len(sc) : sc \in feed} : \A sc \in feed : Len(sc) <= k

ValidRows(observations) ==
    /\ observations \in feed
    /\ frame \in {start_frame, end_frame} => observations # <<>>
    /\ record_count + Len(observations) + MaxRowsPerFrame * (end_frame - frame) >= MinRecords

ProcessFrame(observations, predicted, pairing) ==
    \E proposed \in {{[track |-> tracks[p[1]], i |-> p[1], j |-> p[2],
                       cost |-> Norm(predicted[tracks[p[1]]].kf, observations[p[2]])] :
                      p \in pairing}} :
    \E accepted \in {Accepted(proposed)} :
    \E updated \in {UpdateAll(predicted, accepted, observations, frame)} :
    \E newborn \in {Born(Unassigned(accepted, observations), observations,
                         track_id, frame)} :
    \E os \in {updated \o newborn} :
    \E born \in {[k \in 1..Len(newborn) |-> Len(updated) + k]} :
    \E kept \in {Prune(os, tracks \o born)} :
        /\ objs' = os
        /\ tracks' = kept
        /\ all_tracks' = Register(all_tracks, kept, os)
        /\ track_id' = IdAfter(track_id, Len(newborn))
        /\ record_count' = record_count + Len(observations)
        /\ frame' = frame + 1
        /\ step' = [frame |-> frame, observations |-> observations,
                    active |-> tracks, before |-> objs, predicted |-> predicted,
                    proposed |-> proposed, accepted |-> accepted,
                    born |-> born, registry |-> all_tracks, track_id |-> track_id]

\* the rows of self.df for the current frame: any the file can hold, and in
\* a repetition the rows of the same file
RowsOfFrame ==
    IF mode = "replay"
      THEN {log[frame - start_frame + 1].observations}
      ELSE {observations \in feed : ValidRows(observations)}

\* line 241: linear_sum_assignment is a function of its argument, so in a
\* repetition the call of a frame returns for the cost matrix of the
\* recorded run what it returned then
Assignments(cost_matrix, n, m) ==
    IF mode = "replay" /\ log[frame - start_frame + 1].cost_matrix = cost_matrix
      THEN {log[frame - start_frame + 1].pairing}
      ELSE LinearSumAssignment(cost_matrix, n, m)

Frame ==
    /\ pc = "loop"
    /\ frame <= end_frame
    /\ \E observations \in RowsOfFrame :
         \E predicted \in {PredictAll(objs, tracks)} :
         \E cost_matrix \in {CostMatrix(predicted, tracks, observations)} :
         \E pairing \in Assignments(cost_matrix, Len(tracks), Len(observations)) :
            /\ ProcessFrame(observations, predicted, pairing)
            /\ log' = IF mode = "record"
                        THEN Append(log, [observations |-> observations,
                                          cost_matrix |-> cost_matrix,
                                          pairing |-> pairing])
                        ELSE log
    /\ UNCHANGED <<pc, start_frame, end_frame, max_frames_before_death, ellipse,
                   feed, self_all_tracks, counter, directions, mode, first, arg_pos, ret_quad,
                   folderVars, guiVars>>

----------------------------------------------------------------------------
(* The zone classifier, lines 293-350 *)

\* math.cos and math.sin of an angle given in degrees; zones are rotated by
\* multiples of 90 degrees, where the values are -1, 0 and 1
CosDeg(d) ==
    LET r == d % 360
    IN  IF r = 0 THEN 1 ELSE IF r = 180 THEN -1 ELSE 0

SinDeg(d) ==
    LET r == d % 360
    IN  IF r = 90 THEN 1 ELSE IF r = 270 THEN -1 ELSE 0

\* variant: a point on the boundary counts as outside
QuadrantOpen(x_rot, y_rot, axes) ==
    LET inside_ellipse ==
            4 * x_rot * x_rot * axes[2] * axes[2] + 4 * y_rot * y_rot * axes[1] * axes[1]
              < axes[1] * axes[1] * axes[2] * axes[2]
    IN  IF inside_ellipse
          THEN IF y_rot <= 0 /\ x_rot <= 0 THEN "upper-right"
               ELSE IF y_rot <= 0 /\ x_rot >= 0 THEN "lower-right"
               ELSE IF y_rot >= 0 /\ x_rot <= 0 THEN "upper-left"
               ELSE "lower-left"
          ELSE "outside"

\* lines 316-328: the label of a rotated point; a = axes[1]/2 and b = axes[2]/2,
\* so x^2/a^2 + y^2/b^2 <= 1 is 4 x^2 axes[2]^2 + 4 y^2 axes[1]^2 <= axes[1]^2 axes[2]^2
Quadrant(x_rot, y_rot, axes) ==
    LET inside_ellipse ==
            4 * x_rot * x_rot * axes[2] * axes[2] + 4 * y_rot * y_rot * axes[1] * axes[1]
              <= axes[1] * axes[1] * axes[2] * axes[2]
    IN  IF inside_ellipse
          THEN IF y_rot <= 0 /\ x_rot <= 0 THEN "upper-right"
               ELSE IF y_rot <= 0 /\ x_rot >= 0 THEN "lower-right"
               ELSE IF y_rot >= 0 /\ x_rot <= 0 THEN "upper-left"
               ELSE "lower-left"
          ELSE "outside"

\* lines 302-313: translate to the centre, rotate by -theta
ellipse_quad(pos, e) ==
    LET xp    == pos[1] - e[1][1]
        yp    == pos[2] - e[1][2]
        x_rot == xp * CosDeg(-e[3]) - yp * SinDeg(-e[3])
        y_rot == xp * SinDeg(-e[3]) + yp * CosDeg(-e[3])
    IN  Quadrant(x_rot, y_rot, e[2])

\* a call of ellipse_quad on its own
EllipseQuad ==
    /\ pc = "call"
    /\ ret_quad' = ellipse_quad(arg_pos, ellipse)
    /\ pc' = "returned"
    /\ UNCHANGED <<frame, start_frame, end_frame, max_frames_before_death, ellipse,
                   feed, record_count, objs, tracks, all_tracks, track_id,
                   self_all_tracks, counter, directions, step, mode, log, first,
                   arg_pos,
                   folderVars, guiVars>>

\* line 336
is_inside(quad) == quad = "upper-left" \/ quad = "upper-right"

\* lines 330-350
check_direction(start, end, e) ==
    LET start_inside == is_inside(ellipse_quad(start, e))
        end_inside   == is_inside(ellipse_quad(end, e))
    IN  IF start_inside /\ end_inside THEN "inside"
        ELSE IF start_inside /\ ~end_inside THEN "exit"
        ELSE IF ~start_inside /\ end_inside THEN "enter"
        ELSE "outside"

\* variant: the direction is taken from the second position on
TrackDirectionFromSecond(t, e) ==
    check_direction(t.positions[2], t.positions[Len(t.positions)], e)

\* line 288: the direction of one surviving track
TrackDirection(t, e) ==
    check_direction(t.positions[1], t.positions[Len(t.positions)], e)

----------------------------------------------------------------------------
(* After the loop, lines 276-291 *)

\* variant: the length test with >= for >
SurvivesAtLength(t) ==
    Len(t.positions) >= MinPositions /\ t.distance > MinDistance * PosScale

\* line 277
Survives(t) ==
    Len(t.positions) > MinPositions /\ t.distance > MinDistance * PosScale

\* sorted(key=len(positions), reverse=True) puts t after every element whose
\* key is at least as large: equal keys keep their order (the sort is stable)
\* variant: t goes before the elements of equal key
RECURSIVE InsertBeforeEqual(_, _)
InsertBeforeEqual(sorted, t) ==
    IF sorted = <<>> THEN <<t>>
    ELSE IF Len(Head(sorted).positions) > Len(t.positions)
           THEN <<Head(sorted)>> \o InsertBeforeEqual(Tail(sorted), t)
           ELSE <<t>> \o sorted

RECURSIVE Insert(_, _)
Insert(sorted, t) ==
    IF sorted = <<>> THEN <<t>>
    ELSE IF Len(Head(sorted).positions) >= Len(t.positions)
           THEN <<Head(sorted)>> \o Insert(Tail(sorted), t)
           ELSE <<t>> \o sorted

\* line 279
RECURSIVE SortedByLength(_)
SortedByLength(ts) ==
    IF ts = <<>> THEN <<>>
    ELSE Insert(SortedByLength(SubSeq(ts, 1, Len(ts) - 1)), ts[Len(ts)])

ZeroCounter == [inside |-> 0, enter |-> 0, exit |-> 0, outside |-> 0]

\* variant: the count of a label is set to 1 instead of incremented
RECURSIVE TallyOnce(_, _)
TallyOnce(c, ds) ==
    IF ds = <<>> THEN c
    ELSE TallyOnce([c EXCEPT ![Head(ds)] = 1], Tail(ds))

\* lines 287-289: counter[track_direction] += 1 for every label of ds
RECURSIVE Tally(_, _)
Tally(c, ds) ==
    IF ds = <<>> THEN c
    ELSE Tally([c EXCEPT ![Head(ds)] = c[Head(ds)] + 1], Tail(ds))

\* line 118: self.ellipse when the date has no entry in self.ellipses (None)
NoZone == <<>>

\* lines 288 and 303: ellipse[0] of None raises TypeError in the first call of
\* check_direction; line 280 has run by then, lines 289-291 have not
Raises(survivors, e) == e = NoZone /\ survivors # <<>>

Finish ==
    /\ pc = "loop"
    /\ frame > end_frame
    /\ \E registry \in {[k \in 1..Len(all_tracks) |-> objs[all_tracks[k]]]} :
       \E survivors \in {SortedByLength(SelectSeq(registry, Survives))} :
       \E raises \in {Raises(survivors, ellipse)} :
       \E labels \in {IF raises THEN <<>>
                       ELSE [k \in 1..Len(survivors) |->
                               TrackDirection(survivors[k], ellipse)]} :
           /\ self_all_tracks' = survivors
           /\ directions' = labels
           /\ counter' = IF raises THEN counter ELSE Tally(ZeroCounter, labels)
           /\ pc' = IF raises THEN "error" ELSE "done"
    /\ UNCHANGED <<frame, start_frame, end_frame, max_frames_before_death, ellipse,
                   feed, record_count, objs, tracks, all_tracks, track_id, step,
                   mode, log, first, arg_pos, ret_quad,
                   folderVars, guiVars>>

----------------------------------------------------------------------------
(* track_insects, lines 177-192, for one file that load_csv accepts *)

\* lines 180-183: no ellipse for the date of the file: the file is skipped
SkipFile ==
    /\ pc = "file"
    /\ ellipse = NoZone
    /\ pc' = "skipped"
    /\ UNCHANGED <<frame, start_frame, end_frame, max_frames_before_death, ellipse,
                   feed, record_count, objs, tracks, all_tracks, track_id,
                   self_all_tracks, counter, directions, step,
                   mode, log, first, arg_pos, ret_quad,
                   folderVars, guiVars>>

\* lines 186-192: reset_variables, load_csv and the call of
\* track_insects_one_file up to line 226
LoadFile ==
    /\ pc = "file"
    /\ ellipse # NoZone
    /\ pc' = "loop"
    /\ self_all_tracks' = <<>>
    /\ counter' = ZeroCounter
    /\ UNCHANGED <<frame, start_frame, end_frame, max_frames_before_death, ellipse,
                   feed, record_count, objs, tracks, all_tracks, track_id,
                   directions, step, mode, log, first, arg_pos, ret_quad,
                   folderVars, guiVars>>

----------------------------------------------------------------------------
(* tracking-gui.py: format_time, lines 9-22 *)

\* round(n / d) of Python 3 for n >= 0 and d > 0: to the nearest integer, a
\* half to the even one (n / d is exact in float64 where it is a half)
RoundHalfEven(n, d) ==
    LET q == n \div d
        r == n % d
    IN  IF 2 * r < d THEN q
        ELSE IF 2 * r > d THEN q + 1
        ELSE IF q % 2 = 0 THEN q ELSE q + 1

\* lines 15-22; the result <<hour, minute_10_interval, ampm>> stands for the
\* string f"{hour}:{minute_10_interval:02d} {ampm}"
format_time(time) ==
    IF time = None THEN None
    ELSE LET hour == time[1]
             minute == time[2]
             minute_10_interval == RoundHalfEven(minute, 10) * 10
             ampm == IF hour < 12 THEN "AM" ELSE "PM"
         IN  <<IF hour % 12 # 0 THEN hour % 12 ELSE 12, minute_10_interval, ampm>>

\* line 153 of plot_data: the labels of the time axis
all_times ==
    {format_time(<<hour, minute>>) : hour \in 6..20, minute \in {0, 10, 20, 30, 40, 50}}

\* a call of format_time on its own
FormatTime ==
    /\ pc = "call"
    /\ time_ret' = format_time(time_arg)
    /\ pc' = "returned"
    /\ UNCHANGED <<frame, start_frame, end_frame, max_frames_before_death, ellipse,
                   feed, record_count, objs, tracks, all_tracks, track_id,
                   self_all_tracks, counter, directions, step, mode, log, first,
                   arg_pos, ret_quad, folderVars, time_arg, parse>>

----------------------------------------------------------------------------
(* tracking-gui.py: parse_tracking_data, lines 25-84 *)

\* A line of the report is what the tests of the loop find in it:
\*   "header":  "CSV File" with a name <8 digits>_<6 digits>.csv (date, time),
\*              marked "No Data Found" or not
\*   "foreign": "CSV File" with a name the pattern of line 41 does not match
\*   "total":   "Total Tracks: n"
\*   "counts":  "Enter: e. Exit: x. Inside: i. Outside: o"
\*   "other":   none of these (the dashes, the frame and the parameter lines)
Line(kind, date, time, no_data, numbers) ==
    [kind |-> kind, date |-> date, time |-> time, no_data |-> no_data,
     numbers |-> numbers]

HeaderLine(date, time) == Line("header", date, time, FALSE, <<>>)

NoDataLine(date, time) == Line("header", date, time, TRUE, <<>>)

ForeignLine == Line("foreign", "", <<>>, FALSE, <<>>)

TotalLine(n) == Line("total", "", <<>>, FALSE, <<n>>)

CountsLine(enter, exit, inside, outside) ==
    Line("counts", "", <<>>, FALSE, <<enter, exit, inside, outside>>)

OtherLine == Line("other", "", <<>>, FALSE, <<>>)

Fields == {"Total Tracks", "Enter", "Exit", "Inside", "Outside"}

\* lines 45-51
BlankData == [f \in Fields |-> None]

\* d[key] = value of a dict
Put(d, key, value) ==
    [k \in DOMAIN d \cup {key} |-> IF k = key THEN value ELSE d[k]]

\* lines 40-54
AfterHeader(p, line) ==
    IF line.kind = "header"
      THEN IF ~line.no_data
             THEN [p EXCEPT !.current_date = Some(line.date),
                            !.current_time = line.time,
                            !.current_data = BlankData]
             ELSE [p EXCEPT !.current_date = None, !.current_time = None]
      ELSE p

\* lines 57-60
AfterTotal(p, line) ==
    IF line.kind = "total" /\ p.current_date # None /\ p.current_time # None
      THEN [p EXCEPT !.current_data = Put(p.current_data, "Total Tracks",
                                          Some(line.numbers[1]))]
      ELSE p

\* lines 63-76
AfterCounts(p, line) ==
    IF (\E f \in DOMAIN p.current_data : p.current_data[f] # None)
         /\ line.kind = "counts"
      THEN [p EXCEPT !.current_data =
              [f \in DOMAIN p.current_data |->
                 IF f = "Enter" THEN Some(line.numbers[1])
                 ELSE IF f = "Exit" THEN Some(line.numbers[2])
                 ELSE IF f = "Inside" THEN Some(line.numbers[3])
                 ELSE IF f = "Outside" THEN Some(line.numbers[4])
                 ELSE p.current_data[f]]]
      ELSE p

\* lines 79-82; the dict of dicts is kept as one dict with the keys
\* <<date, formatted time>>
Store(p) ==
    IF \A f \in DOMAIN p.current_data : p.current_data[f] # None
      THEN [p EXCEPT !.tracking_data =
              Put(p.tracking_data, <<p.current_date, format_time(p.current_time)>>,
                  p.current_data)]
      ELSE p

\* one iteration of the loop of line 38
parse_line(p, line) ==
    LET q == Store(AfterCounts(AfterTotal(AfterHeader(p, line), line), line))
    IN  [q EXCEPT !.lines = Append(p.lines, line)]

\* the longest report read, in lines
MaxLines == 5

\* the lines a report is made of: those write_stats_to_csv_file writes for
\* two files, and the header of a file of another name
ReportLines ==
    {OtherLine, HeaderLine("20240101", <<6, 3>>), NoDataLine("20240102", <<7, 0>>),
     ForeignLine, TotalLine(3), CountsLine(1, 2, 0, 0)}

ParseLine ==
    /\ pc = "reading"
    /\ Len(parse.lines) < MaxLines
    /\ \E line \in ReportLines : parse' = parse_line(parse, line)
    /\ UNCHANGED <<pc, frame, start_frame, end_frame, max_frames_before_death,
                   ellipse, feed, record_count, objs, tracks, all_tracks, track_id,
                   self_all_tracks, counter, directions, step, mode, log, first,
                   arg_pos, ret_quad, folderVars, time_arg, time_ret>>

\* line 84
ParseReturn ==
    /\ pc = "reading"
    /\ pc' = "returned"
    /\ UNCHANGED <<frame, start_frame, end_frame, max_frames_before_death,
                   ellipse, feed, record_count, objs, tracks, all_tracks, track_id,
                   self_all_tracks, counter, directions, step, mode, log, first,
                   arg_pos, ret_quad, folderVars, guiVars>>

----------------------------------------------------------------------------
(* Inputs *)

\* detections (center_x, center_y): B is 20 from A, E is exactly 50 from A
\* and from G; C and D are a second lane, 60 above A and B
PointA == <<0, 0>>

PointB == <<20, 0>>

PointE == <<30, 40>>

PointG == <<60, 80>>

PointC == <<0, 60>>

PointD == <<20, 60>>

\* the rows one frame of the file can hold
MixedFeed == {<<>>, <<PointA>>, <<PointB>>, <<PointE, PointG>>}

LaneFeed == {<<PointA, PointC>>, <<PointB, PointD>>, <<PointB, PointC>>, <<PointD>>}

\* self.ellipses[date]: ((h, k), (axes), theta).  In Zone A and C are in upper
\* quadrants, B is in a lower quadrant and D, E and G are outside the ellipse;
\* in RotatedZone A and B are in upper and C and D in lower quadrants.
\* two detections 100 apart, and two more of which Near is 40 from Left and
\* 60 from Right, and Far is 60 from Left and 160 from Right
PointLeft == <<60, 0>>

PointRight == <<160, 0>>

PointNear == <<100, 0>>

PointFar == <<0, 0>>

CrossFeed == {<<>>, <<PointLeft>>, <<PointLeft, PointRight>>, <<PointNear, PointFar>>}

\* a detection at the same distance, 36, from A and from C
PointM == <<20, 30>>

RerunFeed == {<<PointA, PointC>>, <<PointB, PointD>>, <<PointM>>}

\* the rows of a frame in the files of a folder: one detection, in the zone
\* or out of it
FolderFeed == {<<PointA>>, <<PointM>>}

Zone == <<<<5, 0>>, <<32, 140>>, 0>>

RotatedZone == <<<<10, 30>>, <<100, 60>>, 90>>

\* no run has been recorded
NoRun == [tracks |-> <<>>, directions |-> <<>>, counter |-> ZeroCounter]

NoStep ==
    [frame |-> 0, observations |-> <<>>, active |-> <<>>, before |-> <<>>,
     predicted |-> <<>>, proposed |-> {}, accepted |-> {}, born |-> <<>>,
     registry |-> <<>>, track_id |-> 0]

\* variant: the ids go on from where the previous run left them
CarriedId(previous) == previous

\* line 225: track_id = 0, whatever the previous run left
FirstId(previous) == 0

\* lines 186-192 and 204-225 for a file the same engine has tracked before:
\* reset_variables, load_csv (the same rows, frame range and ellipse) and the
\* start of track_insects_one_file, with new local lists and a new counter
RunAgain ==
    /\ pc = "done"
    /\ mode = "record"
    /\ first' = [tracks |-> self_all_tracks, directions |-> directions,
                 counter |-> counter]
    /\ mode' = "replay"
    /\ self_all_tracks' = <<>>
    /\ counter' = ZeroCounter
    /\ objs' = <<>>
    /\ tracks' = <<>>
    /\ all_tracks' = <<>>
    /\ track_id' = FirstId(track_id)
    /\ frame' = start_frame
    /\ record_count' = 0
    /\ directions' = <<>>
    /\ step' = NoStep
    /\ pc' = "loop"
    /\ UNCHANGED <<start_frame, end_frame, max_frames_before_death, ellipse, feed,
                   log, arg_pos, ret_quad,
                   folderVars, guiVars>>

----------------------------------------------------------------------------
(* track_insects over the files of a folder, lines 165-198, with           *)
(* reset_variables, load_csv, check_already_processed and                   *)
(* write_stats_to_csv_file                                                  *)

\* A file of the folder is what the code reads of it: its base name (a
\* sequence of characters), whether self.ellipses has its date, whether the
\* three columns are there, len(self.df), and max minus min of video_frame_id.
CsvFile(name, zone, columns, records, span) ==
    [name |-> name, zone |-> zone, columns |-> columns, records |-> records,
     span |-> span]

\* t in s of two strings
Contains(s, t) ==
    \E i \in 1..(Len(s) - Len(t) + 1) : SubSeq(s, i, i + Len(t) - 1) = t

\* variant: no file counts as processed
never_processed(rows, file) == FALSE

\* lines 122-134: some line of track-stats.csv holds the base name; a line
\* starts with the name it was written for, and the numbers after it hold no
\* file name
check_already_processed(rows, file) ==
    \E k \in 1..Len(rows) : Contains(rows[k].name, file.name)

\* variant: a frame range of one less is taken
load_csv_short(file) ==
    /\ file.columns
    /\ ~(file.records < MinRecords)
    /\ ~(file.span < MinFrameSpan - 1)

\* lines 101-116: what load_csv returns
load_csv(file) ==
    /\ file.columns
    /\ ~(file.records < MinRecords)
    /\ ~(file.span < MinFrameSpan)

\* lines 149 and 162: a row of track-stats.csv
StatsRow(name, records, total, c) ==
    [name |-> name, records |-> records, tracks |-> total, enter |-> c.enter,
     exit |-> c.exit, inside |-> c.inside, outside |-> c.outside]

\* lines 143-146 and 152-159: a block of track-stats.txt, the values of its
\* lines in the order written
StatsBlock(name, no_data, values) ==
    [name |-> name, no_data |-> no_data, values |-> values]

\* an entry of the history: the file taken in which invocation, what was
\* done with it, and the sizes of the two reports after it
Ran(file, what, rows, blocks) ==
    [call |-> calls, name |-> file.name, what |-> what, rows |-> Len(rows),
     blocks |-> Len(blocks)]

\* the file the loop of line 177 is at
CurrentFile == csv_files[file_index + 1]

\* lines 180-183: no ellipse for the date of the file
NoEllipseFile ==
    /\ pc = "files"
    /\ file_index < Len(csv_files)
    /\ ~CurrentFile.zone
    /\ file_index' = file_index + 1
    /\ ran' = Append(ran, Ran(CurrentFile, "no ellipse", stats_csv, stats_txt))
    /\ UNCHANGED <<pc, frame, start_frame, end_frame, max_frames_before_death,
                   ellipse, feed, record_count, objs, tracks, all_tracks, track_id,
                   self_all_tracks, counter, directions, step, mode, log, first,
                   arg_pos, ret_quad, csv_files, stats_csv, stats_txt, calls,
                   guiVars>>

\* lines 186-189: reset_variables, and the file has a line in track-stats.csv
AlreadyProcessed ==
    /\ pc = "files"
    /\ file_index < Len(csv_files)
    /\ CurrentFile.zone
    /\ check_already_processed(stats_csv, CurrentFile)
    /\ self_all_tracks' = <<>>
    /\ counter' = ZeroCounter
    /\ start_frame' = 1
    /\ end_frame' = 1
    /\ file_index' = file_index + 1
    /\ ran' = Append(ran, Ran(CurrentFile, "already processed", stats_csv, stats_txt))
    /\ UNCHANGED <<pc, frame, max_frames_before_death, ellipse, feed, record_count,
                   objs, tracks, all_tracks, track_id, directions, step, mode,
                   log, first, arg_pos, ret_quad, csv_files, stats_csv, stats_txt,
                   calls, guiVars>>

\* lines 186-190 and 194-196: load_csv returns False after reset_variables,
\* and the file gets the "No Data Found" block and the row of zeros
RejectFile ==
    /\ pc = "files"
    /\ file_index < Len(csv_files)
    /\ CurrentFile.zone
    /\ ~check_already_processed(stats_csv, CurrentFile)
    /\ ~load_csv(CurrentFile)
    /\ self_all_tracks' = <<>>
    /\ counter' = ZeroCounter
    /\ start_frame' = 1
    /\ end_frame' = 1
    /\ stats_txt' = Append(stats_txt, StatsBlock(CurrentFile.name, TRUE, <<>>))
    /\ stats_csv' = Append(stats_csv, StatsRow(CurrentFile.name, 0, 0, ZeroCounter))
    /\ file_index' = file_index + 1
    /\ ran' = Append(ran, Ran(CurrentFile, "rejected", stats_csv', stats_txt'))
    /\ UNCHANGED <<pc, frame, max_frames_before_death, ellipse, feed, record_count,
                   objs, tracks, all_tracks, track_id, directions, step, mode,
                   log, first, arg_pos, ret_quad, csv_files, calls, guiVars>>

\* lines 186-191 and 204-225: load_csv returns True (frame range, ellipse of
\* the date), and track_insects_one_file starts with new local lists
AcceptFile ==
    /\ pc = "files"
    /\ file_index < Len(csv_files)
    /\ CurrentFile.zone
    /\ ~check_already_processed(stats_csv, CurrentFile)
    /\ load_csv(CurrentFile)
    /\ self_all_tracks' = <<>>
    /\ counter' = ZeroCounter
    /\ start_frame' = 1
    /\ end_frame' = 1 + CurrentFile.span
    /\ ellipse' = Zone
    /\ feed' = FolderFeed
    /\ frame' = 1
    /\ record_count' = 0
    /\ objs' = <<>>
    /\ tracks' = <<>>
    /\ all_tracks' = <<>>
    /\ track_id' = 0
    /\ directions' = <<>>
    /\ step' = NoStep
    /\ pc' = "loop"
    /\ UNCHANGED <<max_frames_before_death, mode, log, first, arg_pos, ret_quad,
                   folderVars, guiVars>>

\* lines 193 and 151-162: the block and the row of a tracked file
WriteStats ==
    /\ pc = "done"
    /\ file_index < Len(csv_files)
    /\ stats_txt' = Append(stats_txt,
          StatsBlock(CurrentFile.name, FALSE,
                     <<CurrentFile.records, start_frame, end_frame,
                       distance_threshold, max_frames_before_death,
                       Len(self_all_tracks), counter.enter, counter.exit,
                       counter.inside, counter.outside>>))
    /\ stats_csv' = Append(stats_csv,
          StatsRow(CurrentFile.name, CurrentFile.records, Len(self_all_tracks),
                   counter))
    /\ file_index' = file_index + 1
    /\ ran' = Append(ran, Ran(CurrentFile, "tracked", stats_csv', stats_txt'))
    /\ pc' = "files"
    /\ UNCHANGED <<frame, start_frame, end_frame, max_frames_before_death, ellipse,
                   feed, record_count, objs, tracks, all_tracks, track_id,
                   self_all_tracks, counter, directions, step, mode, log, first,
                   arg_pos, ret_quad, csv_files, calls, guiVars>>

\* lines 170-172 and the end of the loop of line 177
Return ==
    /\ pc = "files"
    /\ file_index = Len(csv_files)
    /\ pc' = "idle"
    /\ UNCHANGED <<frame, start_frame, end_frame, max_frames_before_death, ellipse,
                   feed, record_count, objs, tracks, all_tracks, track_id,
                   self_all_tracks, counter, directions, step, mode, log, first,
                   arg_pos, ret_quad, folderVars, guiVars>>

\* track_insects is called again on the same engine, folder and reports
CallAgain ==
    /\ pc = "idle"
    /\ calls < MaxCalls
    /\ calls' = calls + 1
    /\ file_index' = 0
    /\ pc' = "files"
    /\ UNCHANGED <<frame, start_frame, end_frame, max_frames_before_death, ellipse,
                   feed, record_count, objs, tracks, all_tracks, track_id,
                   self_all_tracks, counter, directions, step, mode, log, first,
                   arg_pos, ret_quad, csv_files, stats_csv, stats_txt, ran, guiVars>>

\* the state at line 226, before the first frame (entry "loop"), or the state
\* of track_insects at line 180 for a file that will load to it (entry
\* "file", where `ellipse` is the entry of self.ellipses for the file's date)
InitAt(entries, feeds, spans, deaths, zones) ==
    /\ mode = "single"
    /\ log = <<>>
    /\ first = NoRun
    /\ arg_pos = <<>>
    /\ ret_quad = ""
    /\ NoFolder
    /\ NoGui
    /\ pc \in entries
    /\ start_frame = 1
    /\ end_frame \in {start_frame + s : s \in spans}
    /\ frame = start_frame
    /\ max_frames_before_death \in deaths
    /\ ellipse \in zones
    /\ feed = feeds
    /\ record_count = 0
    /\ objs = <<>>
    /\ tracks = <<>>
    /\ all_tracks = <<>>
    /\ track_id = 0
    /\ self_all_tracks = <<>>
    /\ counter = ZeroCounter
    /\ directions = <<>>
    /\ step = NoStep

InitRun(feeds, spans, deaths, zones) == InitAt({"loop"}, feeds, spans, deaths, zones)

Init == InitRun(MixedFeed, MinFrameSpan..MaxSpan, 0..MaxDeath, {Zone})

InitLanes ==
    InitRun(LaneFeed, {LaneSpan}, {DefaultMaxFramesBeforeDeath}, {Zone, RotatedZone})

\* a run of track_insects_one_file on a loaded file, or a file taken by
\* track_insects, with and without a zone for its date
InitNoZone ==
    InitAt({"file", "loop"}, LaneFeed, {LaneSpan}, {DefaultMaxFramesBeforeDeath},
           {NoZone, Zone})

InitCross == InitRun(CrossFeed, {MinFrameSpan}, {MaxDeath}, {Zone})

\* a run that the same engine repeats on the same file
InitRerun ==
    /\ mode = "record"
    /\ log = <<>>
    /\ first = NoRun
    /\ arg_pos = <<>>
    /\ ret_quad = ""
    /\ NoFolder
    /\ NoGui
    /\ pc = "loop"
    /\ start_frame = 1
    /\ end_frame = start_frame + LaneSpan
    /\ frame = start_frame
    /\ max_frames_before_death = DefaultMaxFramesBeforeDeath
    /\ ellipse = Zone
    /\ feed = RerunFeed
    /\ record_count = 0
    /\ objs = <<>>
    /\ tracks = <<>>
    /\ all_tracks = <<>>
    /\ track_id = 0
    /\ self_all_tracks = <<>>
    /\ counter = ZeroCounter
    /\ directions = <<>>
    /\ step = NoStep

\* the coordinates of the points passed to ellipse_quad reach from -GridReach
\* to GridReach
GridReach == 4

\* ellipses with whole and with half-integer semi-axes, off-centre, with a
\* negative axis, and rotated by a quarter turn
QuadZones ==
    {<<<<0, 0>>, <<4, 6>>, 0>>, <<<<1, -1>>, <<5, 3>>, 0>>, <<<<0, 0>>, <<-4, 2>>, 0>>,
     <<<<0, 0>>, <<4, 6>>, 90>>}

\* math.cos(-theta) and math.sin(-theta) are exact for theta = 0; for a
\* quarter turn math.cos returns 6.1e-17 for 0, which moves x_rot and y_rot
\* by at most one unit in the last place: the label is the one computed here
\* unless the point is on a rotated axis or on the boundary
ExactAt(p, e) ==
    \/ e[3] = 0
    \/ LET xp == p[1] - e[1][1]
           yp == p[2] - e[1][2]
       IN  /\ xp # 0
           /\ yp # 0
           /\ 4 * yp * yp * e[2][2] * e[2][2] + 4 * xp * xp * e[2][1] * e[2][1]
                # e[2][1] * e[2][1] * e[2][2] * e[2][2]

InitQuad ==
    /\ pc = "call"
    /\ ellipse \in QuadZones
    /\ arg_pos \in {p \in (-GridReach..GridReach) \X (-GridReach..GridReach) :
                        ExactAt(p, ellipse)}
    /\ ret_quad = ""
    /\ NoFolder
    /\ NoGui
    /\ mode = "single"
    /\ log = <<>>
    /\ first = NoRun
    /\ start_frame = 1
    /\ end_frame = 1
    /\ frame = 1
    /\ max_frames_before_death = DefaultMaxFramesBeforeDeath
    /\ feed = {}
    /\ record_count = 0
    /\ objs = <<>>
    /\ tracks = <<>>
    /\ all_tracks = <<>>
    /\ track_id = 0
    /\ self_all_tracks = <<>>
    /\ counter = ZeroCounter
    /\ directions = <<>>
    /\ step = NoStep

\* the engine before any run, as __init__ leaves it
IdleEngine ==
    /\ mode = "single"
    /\ log = <<>>
    /\ first = NoRun
    /\ arg_pos = <<>>
    /\ ret_quad = ""
    /\ start_frame = 1
    /\ end_frame = 1
    /\ frame = 1
    /\ max_frames_before_death = DefaultMaxFramesBeforeDeath
    /\ ellipse = NoZone
    /\ feed = {}
    /\ record_count = 0
    /\ objs = <<>>
    /\ tracks = <<>>
    /\ all_tracks = <<>>
    /\ track_id = 0
    /\ self_all_tracks = <<>>
    /\ counter = ZeroCounter
    /\ directions = <<>>
    /\ step = NoStep

\* the times HHMMSS a file name can carry, as <<int(time[:2]), int(time[2:4])>>
ClockTimes == (0..23) \X (0..59)

InitTime ==
    /\ pc = "call"
    /\ time_arg \in {None} \cup ClockTimes
    /\ time_ret = None
    /\ parse = NoParse
    /\ NoFolder
    /\ IdleEngine

\* base names: the second ends with the first
FileNames == {<<"a">>, <<"x", "a">>, <<"b">>}

\* the files a folder can hold: one that load_csv takes (a row in each frame
\* of a range of MinFrameSpan), one without the columns, one with too few
\* records, one with too short a frame range, and one whose date has no
\* ellipse
FolderFiles ==
    {CsvFile(name, k[1], k[2], k[3], k[4]) :
        name \in FileNames,
        k \in {<<TRUE, TRUE, MinFrameSpan + 1, MinFrameSpan>>,
               <<TRUE, FALSE, MinFrameSpan + 1, MinFrameSpan>>,
               <<TRUE, TRUE, MinRecords - 1, MinFrameSpan>>,
               <<TRUE, TRUE, MinFrameSpan + 1, MinFrameSpan - 1>>,
               <<FALSE, TRUE, MinFrameSpan + 1, MinFrameSpan>>}}

\* os.listdir gives each name once
Folders ==
    {files \in UNION {[1..n -> FolderFiles] : n \in 0..MaxFiles} :
        \A i, j \in 1..Len(files) : i # j => files[i].name # files[j].name}

\* the engine after __init__, at the first call of track_insects, with empty
\* reports in the output folder
InitFolder ==
    /\ pc = "files"
    /\ csv_files \in Folders
    /\ file_index = 0
    /\ stats_csv = <<>>
    /\ stats_txt = <<>>
    /\ ran = <<>>
    /\ calls = 1
    /\ NoGui
    /\ IdleEngine

InitParse ==
    /\ pc = "reading"
    /\ parse = NoParse
    /\ time_arg = None
    /\ time_ret = None
    /\ NoFolder
    /\ IdleEngine

Next == Frame \/ Finish

NextParse == ParseLine \/ ParseReturn

NextFolder ==
    \/ NoEllipseFile
    \/ AlreadyProcessed
    \/ RejectFile
    \/ AcceptFile
    \/ Frame
    \/ Finish
    \/ WriteStats
    \/ Return
    \/ CallAgain

NextTime == FormatTime

NextQuad == EllipseQuad

NextAgain == Frame \/ Finish \/ RunAgain

NextFiles == SkipFile \/ LoadFile \/ Frame \/ Finish

Spec == Init /\ [][Next]_vars

SpecLanes == InitLanes /\ [][Next]_vars

SpecCross == InitCross /\ [][Next]_vars

SpecRerun == InitRerun /\ [][NextAgain]_vars

SpecQuad == InitQuad /\ [][NextQuad]_vars

SpecTime == InitTime /\ [][NextTime]_vars

SpecParse == InitParse /\ [][NextParse]_vars

SpecFolder == InitFolder /\ [][NextFolder]_vars

SpecNoZone == InitNoZone /\ [][NextFiles]_vars

----------------------------------------------------------------------------
(* Properties.  `step` holds what the last iteration of the frame loop did; *)
(* the properties below compare the state after a frame with it.            *)

Threshold == distance_threshold * PosScale

\* the tracks that were active when the last frame began
ActiveBefore == Range(step.active)

\* track a got a position in the last frame
GotPosition(a) ==
    /\ Len(objs[a].positions) = Len(step.before[a].positions) + 1
    /\ objs[a].frame_ids[Len(objs[a].frame_ids)] = step.frame

\* track a has in the last frame exactly the history it had before it
SameHistory(a) ==
    /\ objs[a].positions = step.before[a].positions
    /\ objs[a].frame_ids = step.before[a].frame_ids
    /\ objs[a].distance = step.before[a].distance

\* detection j of the last frame gave birth to a track
GaveBirth(j) ==
    \E k \in 1..Len(step.born) :
        /\ objs[step.born[k]].positions = <<step.observations[j]>>
        /\ objs[step.born[k]].frame_ids = <<step.frame>>

\* the cost of pairing track a with detection j in the last frame
CostOf(a, j) == Norm(step.predicted[a].kf, step.observations[j])

\* C1: every proposed pair of a frame is either accepted, and then its cost
\* (the distance between the predicted position and the detection) is strictly
\* below distance_threshold, the detection is appended to the track and the
\* cost added to its distance; or its cost is at or above the threshold, and
\* then the track keeps its history and the detection gives birth to a track.
C1_AcceptedBelowThreshold ==
    /\ \A a \in ActiveBefore : GotPosition(a) => \E p \in step.proposed : p.track = a
    /\ \A p \in step.proposed :
        /\ p.cost = CostOf(p.track, p.j)
        /\ GotPosition(p.track) =>
             /\ p.cost < Threshold
             /\ objs[p.track].positions =
                  Append(step.before[p.track].positions, step.observations[p.j])
             /\ objs[p.track].distance = step.before[p.track].distance + p.cost
        /\ p.cost >= Threshold =>
             /\ SameHistory(p.track)
             /\ objs[p.track].last_seen > 0
             /\ GaveBirth(p.j)

\* a frame with a pair rejected at exactly the threshold and, in an earlier
\* frame, a pair accepted at a positive cost
C1_Witness ==
    /\ \E p \in step.proposed : p.cost = Threshold /\ SameHistory(p.track)
    /\ \E a \in 1..Len(objs) : objs[a].distance > 0

\* C2: track ids are pairwise distinct and strictly increasing in creation
\* order, pruned tracks included, and the next id is larger than all of them.
C2_IdsIncreasing ==
    /\ \A a, b \in 1..Len(objs) : a < b => objs[a].id < objs[b].id
    /\ \A a \in 1..Len(objs) : objs[a].id < track_id

\* two tracks born in one frame, after an older track was pruned
C2_Witness ==
    /\ Len(step.born) = 2
    /\ \E a \in 1..Len(step.before) : a \notin ActiveBefore

\* C3: a track that was active when a frame began has last_seen 0 after the
\* frame iff it got a match in it, and otherwise one more than before.
C3_LastSeen ==
    \A a \in ActiveBefore :
        /\ objs[a].last_seen = 0 <=> GotPosition(a)
        /\ ~GotPosition(a) =>
             /\ objs[a].last_seen = step.before[a].last_seen + 1
             /\ SameHistory(a)

\* a frame in which one track is matched and another goes unmatched for the
\* second time
C3_Witness ==
    \E a, b \in ActiveBefore :
        /\ GotPosition(a) /\ objs[a].last_seen = 0
        /\ ~GotPosition(b) /\ objs[b].last_seen = 2

\* C4: after every frame no active track is older than
\* max_frames_before_death, and a track that was active or born in the frame
\* is active after it iff its last_seen is at most max_frames_before_death.
C4_PrunedWhenTooOld ==
    /\ \A a \in Range(tracks) : objs[a].last_seen <= max_frames_before_death
    /\ \A a \in ActiveBefore \cup Range(step.born) :
          a \in Range(tracks) <=> objs[a].last_seen <= max_frames_before_death

\* a frame after which one track is exactly max_frames_before_death old and
\* stays, and another is one frame older and leaves
C4_Witness ==
    /\ max_frames_before_death >= 1
    /\ \E a \in ActiveBefore :
          a \in Range(tracks) /\ objs[a].last_seen = max_frames_before_death
    /\ \E b \in ActiveBefore :
          b \notin Range(tracks) /\ objs[b].last_seen = max_frames_before_death + 1

\* C5: after every frame every track created so far is in the registry exactly
\* once by id, the active ones included, and a track that is no longer active
\* has the history it had before the frame (or, pruned in this frame, the
\* history of its last match).
C5_RegistryComplete ==
    /\ \A a \in 1..Len(objs) :
          Cardinality({k \in 1..Len(all_tracks) :
                          objs[all_tracks[k]].id = objs[a].id}) = 1
    /\ Range(tracks) \subseteq Range(all_tracks)
    /\ \A a \in 1..Len(step.before) : a \notin Range(tracks) => SameHistory(a)

\* the registry holds a pruned track with a match in its history beside
\* active tracks
C5_Witness ==
    /\ tracks # <<>>
    /\ \E a \in Range(all_tracks) :
          a \notin Range(tracks) /\ Len(objs[a].positions) >= 2

\* the last position of a track as it was before the last frame
LastPositionBefore(a) ==
    step.before[a].positions[Len(step.before[a].positions)]

\* C6: a track unmatched for k frames, 1 <= k <= max_frames_before_death, is
\* still active; and when the next frame holds a single detection that is
\* strictly within distance_threshold of its predicted position and every
\* other active track is farther from it, the detection is appended to that
\* track (same id, last_seen 0) and no track is born.
C6_SurvivesGap ==
    \A a \in ActiveBefore :
        /\ (~GotPosition(a) /\ objs[a].last_seen <= max_frames_before_death)
             => a \in Range(tracks)
        /\ ( /\ step.before[a].last_seen >= 1
             /\ Len(step.observations) = 1
             /\ CostOf(a, 1) < Threshold
             /\ \A b \in ActiveBefore \ {a} : CostOf(b, 1) > CostOf(a, 1) )
             => /\ objs[a].positions =
                     Append(step.before[a].positions, step.observations[1])
                /\ objs[a].id = step.before[a].id
                /\ objs[a].last_seen = 0
                /\ a \in Range(tracks)
                /\ step.born = <<>>
                /\ Len(objs) = Len(step.before)
                /\ track_id = step.track_id

\* a track that was unmatched for max_frames_before_death >= 1 frames takes,
\* at a positive cost, the single detection of the next frame, with another
\* track active
C6_Witness ==
    \E a \in ActiveBefore :
        /\ step.before[a].last_seen = max_frames_before_death
        /\ max_frames_before_death >= 1
        /\ Len(step.observations) = 1
        /\ CostOf(a, 1) < Threshold /\ CostOf(a, 1) > 0
        /\ ActiveBefore # {a}
        /\ \A b \in ActiveBefore \ {a} : CostOf(b, 1) > CostOf(a, 1)
        /\ GotPosition(a)

\* C7 as stated: a detection at the last location of a pruned track creates
\* a new track.  Taken in the case most favourable to it: no track that is
\* active in the frame was ever matched or born at that location.
C7_ReappearingAlwaysBorn ==
    \A a \in 1..Len(step.before) :
        a \notin ActiveBefore =>
            \A j \in 1..Len(step.observations) :
                ( /\ step.observations[j] = LastPositionBefore(a)
                  /\ \A b \in ActiveBefore :
                        step.observations[j] \notin Range(step.before[b].positions) )
                  => GaveBirth(j)

\* C7, amended: a track unmatched for more than max_frames_before_death
\* frames is out of the active set and is never changed again; a detection
\* at its last location is not attached to it: it is either accepted by a
\* track that is still active, or creates a new track whose id is larger than
\* every id created before.
C7_PrunedNeverResumes ==
    /\ \A a \in 1..Len(objs) :
          objs[a].last_seen > max_frames_before_death => a \notin Range(tracks)
    /\ \A a \in 1..Len(step.before) :
          step.before[a].last_seen > max_frames_before_death =>
              /\ a \notin ActiveBefore
              /\ objs[a] = step.before[a]
              /\ \A j \in 1..Len(step.observations) :
                    step.observations[j] = LastPositionBefore(a) =>
                        \/ \E b \in ActiveBefore :
                              /\ GotPosition(b)
                              /\ objs[b].positions[Len(objs[b].positions)]
                                   = step.observations[j]
                              /\ CostOf(b, j) < Threshold
                        \/ \E k \in 1..Len(step.born) :
                              /\ objs[step.born[k]].positions = <<step.observations[j]>>
                              /\ \A c \in 1..Len(step.before) :
                                    step.before[c].id < objs[step.born[k]].id

\* a detection at the last location of a pruned track, which has a match in
\* its history, gives birth to a track
C7_Witness ==
    \E a \in 1..Len(step.before) :
        /\ step.before[a].last_seen > max_frames_before_death
        /\ Len(step.before[a].positions) >= 2
        /\ \E j \in 1..Len(step.observations) :
              /\ step.observations[j] = LastPositionBefore(a)
              /\ GaveBirth(j)
        /\ objs[a] = step.before[a]

\* the registry as track dicts
RegistryTracks == {objs[all_tracks[k]] : k \in 1..Len(all_tracks)}

C9_SortedByLength ==
    pc = "done" =>
        \A i, k \in 1..Len(self_all_tracks) :
            i < k =>
                /\ Len(self_all_tracks[i].positions) >= Len(self_all_tracks[k].positions)
                /\ Len(self_all_tracks[i].positions) = Len(self_all_tracks[k].positions)
                     => self_all_tracks[i].id < self_all_tracks[k].id

\* two survivors of different length, the longer one created later
C9_Witness ==
    /\ pc = "done"
    /\ Len(self_all_tracks) = 2
    /\ Len(self_all_tracks[1].positions) > Len(self_all_tracks[2].positions)
    /\ self_all_tracks[1].id > self_all_tracks[2].id

\* the point is in an upper quadrant of the zone
Upper(pos) == ellipse_quad(pos, ellipse) \in {"upper-left", "upper-right"}

\* C10: the direction of a survivor is given by its first and its last
\* position alone: inside when both are in an upper quadrant, exit when only
\* the first is, enter when only the last is, outside when neither is.
C10_DirectionFromEnds ==
    pc = "done" =>
        /\ Len(directions) = Len(self_all_tracks)
        /\ \A k \in 1..Len(self_all_tracks) :
              LET t == self_all_tracks[k]
                  s == Upper(t.positions[1])
                  e == Upper(t.positions[Len(t.positions)])
              IN  directions[k] = IF s /\ e THEN "inside"
                                  ELSE IF s THEN "exit"
                                  ELSE IF e THEN "enter"
                                  ELSE "outside"

\* two survivors labelled exit, one ending in a lower quadrant of the zone and
\* one ending outside the ellipse, the first with an upper position in between
C10_Witness ==
    /\ pc = "done"
    /\ Len(self_all_tracks) = 2
    /\ directions = <<"exit", "exit">>
    /\ \E i, k \in 1..2 :
          /\ ellipse_quad(self_all_tracks[i].positions[Len(self_all_tracks[i].positions)],
                          ellipse) \in {"lower-left", "lower-right"}
          /\ ellipse_quad(self_all_tracks[k].positions[Len(self_all_tracks[k].positions)],
                          ellipse) = "outside"
          /\ \E n \in 2..(Len(self_all_tracks[i].positions) - 1) :
                Upper(self_all_tracks[i].positions[n])

\* the registry as the list of its dicts, in the order of all_tracks
RegistryList == [k \in 1..Len(all_tracks) |-> objs[all_tracks[k]]]

\* C11: a run whose date has no zone is neither skipped nor fails while
\* classifying: it ends with the filtered, sorted surviving tracks as its
\* result, and only the labels and the counts are left out.
C11_NoZoneStillTracks ==
    ellipse = NoZone =>
        /\ pc \notin {"skipped", "error"}
        /\ pc = "done" =>
             /\ self_all_tracks = SortedByLength(SelectSeq(RegistryList, Survives))
             /\ directions = <<>>
             /\ counter = ZeroCounter

\* the labels of check_direction
Labels == {"inside", "enter", "exit", "outside"}

\* C12: after a run with a zone every survivor is counted under exactly one
\* of the four labels: each count is the number of survivors with that label,
\* none is negative and they sum to the number of survivors; a run without
\* survivors ends without error, with an empty list and four zero counts.
C12_CountsPartition ==
    /\ pc # "error"
    /\ pc = "done" =>
        /\ DOMAIN counter = Labels
        /\ Len(directions) = Len(self_all_tracks)
        /\ \A k \in 1..Len(directions) : directions[k] \in Labels
        /\ \A l \in Labels :
              /\ counter[l] >= 0
              /\ counter[l] = Cardinality({k \in 1..Len(directions) : directions[k] = l})
        /\ counter.inside + counter.enter + counter.exit + counter.outside
             = Len(self_all_tracks)
        /\ self_all_tracks = <<>> => counter = ZeroCounter

\* a run that ends with two survivors under one label
C12_Witness ==
    /\ pc = "done"
    /\ \E l \in Labels : counter[l] = 2 /\ \A m \in Labels \ {l} : counter[m] = 0

\* C14: every track, active or in the registry, has as many frame ids as
\* positions, and at least one of each.
C14_PositionsMatchFrameIds ==
    \A a \in Range(tracks) \cup Range(all_tracks) \cup (1..Len(objs)) :
        /\ Len(objs[a].positions) = Len(objs[a].frame_ids)
        /\ Len(objs[a].positions) >= 1

\* an active track with three positions beside a pruned track of the registry
C14_Witness ==
    /\ \E a \in Range(tracks) : Len(objs[a].positions) = 3
    /\ \E b \in Range(all_tracks) : b \notin Range(tracks)

\* the accepted pairs of the last frame that matched track a
AcceptedFor(a) == {p \in step.accepted : p.track = a}

\* C15: the distance of a track is 0 at its birth and never decreases; a
\* frame changes it only for a track with an accepted match, by exactly the
\* cost of that match, and leaves the distance, the positions and the frame
\* ids of every other track as they were.
C15_DistanceGrowsByCost ==
    /\ \A b \in Range(step.born) : objs[b].distance = 0
    /\ \A a \in 1..Len(step.before) :
          /\ objs[a].distance >= step.before[a].distance
          /\ Cardinality(AcceptedFor(a)) <= 1
          /\ \A p \in AcceptedFor(a) :
                /\ p.cost = CostOf(a, p.j)
                /\ p.cost >= 0
                /\ objs[a].distance = step.before[a].distance + p.cost
          /\ AcceptedFor(a) = {} => SameHistory(a)

\* a frame in which a track that had moved before is matched at a positive
\* cost and another active track that had moved is not matched
C15_Witness ==
    /\ \E a \in ActiveBefore : \E p \in AcceptedFor(a) :
          p.cost > 0 /\ step.before[a].distance > 0
    /\ \E b \in ActiveBefore : AcceptedFor(b) = {} /\ objs[b].distance > 0

\* C16: when a frame gives birth to a track for a detection, no track that
\* was active in the frame and got no match in it has its predicted position
\* strictly closer than distance_threshold to that detection.
C16_BornOnlyWhenNoTrackNear ==
    \A k \in 1..Len(step.born) :
        \A j \in 1..Len(step.observations) :
            objs[step.born[k]].positions = <<step.observations[j]>> =>
                \A a \in ActiveBefore :
                    AcceptedFor(a) = {} => CostOf(a, j) >= Threshold

\* the detections of the last frame that are in no accepted pair
NotAccepted == {j \in 1..Len(step.observations) : \A p \in step.accepted : p.j # j}

\* C16 (amended): a frame gives birth to one track for each detection that is
\* in no accepted pair of its assignment, and to no other: the detection was
\* left out of the assignment, or its proposed pair costs distance_threshold
\* or more; the distance to tracks other than the proposed one plays no part.
C16_BornIffNotAccepted ==
    /\ Len(step.born) = Cardinality(NotAccepted)
    /\ \A j \in NotAccepted :
          /\ GaveBirth(j)
          /\ \A p \in step.proposed : p.j = j => p.cost >= Threshold
    /\ \A p \in step.accepted :
          /\ p \in step.proposed
          /\ p.cost < Threshold
          /\ objs[p.track].positions[Len(objs[p.track].positions)]
               = step.observations[p.j]

\* a frame that gives birth to a track for a detection although an active
\* track without a match is predicted closer than the threshold to it
C16_Witness ==
    \E j \in NotAccepted : \E a \in ActiveBefore :
        /\ GaveBirth(j)
        /\ AcceptedFor(a) = {}
        /\ CostOf(a, j) < Threshold
        /\ \E p \in step.proposed : p.j = j /\ p.track # a

\* the detections in no accepted pair, in index order
NotAcceptedSeq ==
    SelectSeq([j \in 1..Len(step.observations) |-> j], LAMBDA j : j \in NotAccepted)

\* the number of positions held by the tracks at the addresses as
RECURSIVE PositionCount(_)
PositionCount(as) ==
    IF as = {} THEN 0
    ELSE LET a == CHOOSE b \in as : TRUE
         IN  Len(objs[a].positions) + PositionCount(as \ {a})

\* C17: every detection of a processed frame goes to exactly one track: it is
\* appended, with the frame, to the one track of its accepted pair, or it
\* gives birth to one track with the next id, last_seen 0, distance 0 and
\* that detection and frame as its only position and frame id; so the
\* positions of the registry add up to the detections read so far.
C17_EveryDetectionInOneTrack ==
    /\ \A j \in 1..Len(step.observations) :
          /\ Cardinality({p \in step.accepted : p.j = j}) <= 1
          /\ \A p \in step.accepted : p.j = j =>
                /\ p.track \in ActiveBefore
                /\ objs[p.track].positions =
                     Append(step.before[p.track].positions, step.observations[j])
                /\ objs[p.track].frame_ids =
                     Append(step.before[p.track].frame_ids, step.frame)
    /\ Len(step.born) = Len(NotAcceptedSeq)
    /\ \A k \in 1..Len(step.born) :
          LET t == objs[step.born[k]]
          IN  /\ step.born[k] = Len(step.before) + k
              /\ t.id = step.track_id + k - 1
              /\ t.last_seen = 0
              /\ t.distance = 0
              /\ t.positions = <<step.observations[NotAcceptedSeq[k]]>>
              /\ t.frame_ids = <<step.frame>>
    /\ Len(objs) = Len(step.before) + Len(step.born)
    /\ \A a, b \in 1..Len(all_tracks) : a # b => all_tracks[a] # all_tracks[b]
    /\ max_frames_before_death >= 0 =>
          /\ Range(all_tracks) = 1..Len(objs)
          /\ PositionCount(Range(all_tracks)) = record_count

\* a frame with two detections, one appended to a track and one giving birth,
\* when a track of the registry is no longer active
C17_Witness ==
    /\ Len(step.observations) = 2
    /\ Cardinality(step.accepted) = 1
    /\ Len(step.born) = 1
    /\ \E a \in Range(all_tracks) : a \notin Range(tracks)
    /\ record_count > Len(objs)

\* the pairs <<track, detection index>> proposed in the last frame
ProposedPairs == {<<p.track, p.j>> : p \in step.proposed}

\* q pairs no track and no detection twice
OneToOne(q) == \A u, v \in q : u # v => (u[1] # v[1] /\ u[2] # v[2])

\* the smaller of the numbers of active tracks and of detections in the last frame
PairCount ==
    IF Len(step.active) <= Len(step.observations)
      THEN Len(step.active) ELSE Len(step.observations)

\* the sum of the costs of the pairs of q
RECURSIVE PairCost(_)
PairCost(q) ==
    IF q = {} THEN 0
    ELSE LET u == CHOOSE v \in q : TRUE
         IN  CostOf(u[1], u[2]) + PairCost(q \ {u})

\* C18: the assignment proposed in a frame pairs min(#tracks, #detections)
\* active tracks and detections one-to-one, at a total cost no other such
\* pairing undercuts; a track gets at most one position in a frame and a
\* detection goes to at most one track; without tracks or without detections
\* nothing is proposed and the frame is processed all the same.
C18_AssignmentOptimal ==
    /\ Cardinality(step.proposed) = Cardinality(ProposedPairs)
    /\ ProposedPairs \subseteq ActiveBefore \X (1..Len(step.observations))
    /\ OneToOne(ProposedPairs)
    /\ Cardinality(ProposedPairs) = PairCount
    /\ \A q \in SUBSET (ActiveBefore \X (1..Len(step.observations))) :
          (OneToOne(q) /\ Cardinality(q) = PairCount) =>
              PairCost(ProposedPairs) <= PairCost(q)
    /\ \A a \in ActiveBefore :
          Len(objs[a].positions) <= Len(step.before[a].positions) + 1
    /\ \A j \in 1..Len(step.observations) :
          Cardinality({p \in step.accepted : p.j = j}) <= 1
    /\ (pc = "loop" /\ step.frame > 0) => frame = step.frame + 1

\* a frame with two active tracks and two detections whose two pairings
\* differ in cost, after a frame without active tracks
C18_Witness ==
    /\ Len(step.active) = 2
    /\ Len(step.observations) = 2
    /\ \E q \in SUBSET (ActiveBefore \X (1..2)) :
          OneToOne(q) /\ Cardinality(q) = 2 /\ PairCost(q) > PairCost(ProposedPairs)
    /\ step.frame = 2

\* what a run reports of its surviving tracks
Reported(ts) ==
    [k \in 1..Len(ts) |-> [id |-> ts[k].id, positions |-> ts[k].positions,
                            frame_ids |-> ts[k].frame_ids]]

\* C13: a run that the engine repeats on the same detections, zone and
\* parameters starts with the first id, no active track, an empty registry
\* and zero counters, and ends with the same ids, positions, frame ids and
\* direction labels as the run before.
C13_RepeatedRunIdentical ==
    mode = "replay" =>
        /\ step = NoStep =>
              /\ track_id = 0
              /\ tracks = <<>>
              /\ all_tracks = <<>>
              /\ self_all_tracks = <<>>
              /\ counter = ZeroCounter
        /\ pc = "done" =>
              /\ Reported(self_all_tracks) = Reported(first.tracks)
              /\ directions = first.directions
              /\ counter = first.counter

\* a repeated run that ends with surviving tracks, over rows that left
\* linear_sum_assignment two pairings of the same cost
C13_Witness ==
    /\ mode = "replay"
    /\ pc = "done"
    /\ self_all_tracks # <<>>
    /\ \E k \in 1..Len(log) :
          /\ DOMAIN log[k].cost_matrix = (1..2) \X (1..1)
          /\ log[k].cost_matrix[1, 1] = log[k].cost_matrix[2, 1]

\* the point passed to ellipse_quad, moved to the centre of the ellipse and
\* rotated by minus its angle
Rotated ==
    LET xp == arg_pos[1] - ellipse[1][1]
        yp == arg_pos[2] - ellipse[1][2]
    IN  <<xp * CosDeg(-ellipse[3]) - yp * SinDeg(-ellipse[3]),
          xp * SinDeg(-ellipse[3]) + yp * CosDeg(-ellipse[3])>>

\* x^2/a^2 + y^2/b^2 compared with 1 for the rotated point, a and b half the
\* axes, cleared of fractions: the left side minus the right side
Excess ==
    4 * Rotated[1] * Rotated[1] * ellipse[2][2] * ellipse[2][2]
      + 4 * Rotated[2] * Rotated[2] * ellipse[2][1] * ellipse[2][1]
      - ellipse[2][1] * ellipse[2][1] * ellipse[2][2] * ellipse[2][2]

\* C19: ellipse_quad returns one of five labels: outside exactly when the
\* rotated point has x^2/a^2 + y^2/b^2 > 1 (the boundary is inside), and
\* otherwise upper-right for y <= 0 and x <= 0, else lower-right for y <= 0,
\* else upper-left for x <= 0, else lower-left.
C19_QuadrantRules ==
    pc = "returned" =>
        /\ ret_quad \in {"upper-left", "upper-right", "lower-left", "lower-right",
                          "outside"}
        /\ ret_quad = "outside" <=> Excess > 0
        /\ Excess <= 0 =>
              /\ (Rotated[2] <= 0 /\ Rotated[1] <= 0) => ret_quad = "upper-right"
              /\ (Rotated[2] <= 0 /\ Rotated[1] > 0) => ret_quad = "lower-right"
              /\ (Rotated[2] > 0 /\ Rotated[1] <= 0) => ret_quad = "upper-left"
              /\ (Rotated[2] > 0 /\ Rotated[1] > 0) => ret_quad = "lower-left"

\* a point on the boundary and on the y axis of the ellipse, labelled
\* upper-left
C19_Witness ==
    /\ pc = "returned"
    /\ Excess = 0
    /\ Rotated[1] = 0
    /\ Rotated[2] > 0
    /\ ret_quad = "upper-left"

\* C20: the frame ids of a track increase strictly and lie between
\* start_frame and end_frame; the loop takes the frames one by one in
\* increasing order, each once, with or without detections: every iteration
\* handles the frame after the one handled before, from start_frame on, and
\* the run ends after end_frame.
C20_FramesInOrder ==
    /\ \A a \in 1..Len(objs) :
          /\ \A k \in 1..Len(objs[a].frame_ids) :
                /\ objs[a].frame_ids[k] >= start_frame
                /\ objs[a].frame_ids[k] <= end_frame
          /\ \A k \in 1..(Len(objs[a].frame_ids) - 1) :
                objs[a].frame_ids[k] < objs[a].frame_ids[k + 1]
    /\ frame >= start_frame
    /\ frame <= end_frame + 1
    /\ step = NoStep => frame = start_frame
    /\ step # NoStep => step.frame = frame - 1
    /\ pc = "done" => frame = end_frame + 1
    /\ \A a \in 1..Len(objs) :
          objs[a].frame_ids[Len(objs[a].frame_ids)] < frame

\* a frame without detections has just been handled, and a track holds
\* positions of the frames before and after an earlier frame it missed
C20_Witness ==
    /\ step # NoStep
    /\ step.observations = <<>>
    /\ \E a \in 1..Len(objs) : \E k \in 1..(Len(objs[a].frame_ids) - 1) :
          objs[a].frame_ids[k + 1] = objs[a].frame_ids[k] + 2

\* C24: format_time turns a 24-hour time into a 12-hour label on a
\* 10-minute grid: the hour is in 1..12, the minute field is one of 00, 10,
\* 20, 30, 40, 50, the suffix is AM below hour 12 and PM from it on, a time
\* from 6 AM to 8 PM gets one of the labels of plot_data, and None gives None.
C24_TenMinuteLabels ==
    pc = "returned" =>
        IF time_arg = None THEN time_ret = None
        ELSE /\ time_ret # None
             /\ time_ret[1] \in 1..12
             /\ time_ret[2] \in {0, 10, 20, 30, 40, 50}
             /\ time_ret[3] = (IF time_arg[1] < 12 THEN "AM" ELSE "PM")
             /\ (60 * time_arg[1] + time_arg[2] \in (6 * 60)..(20 * 60)) =>
                    time_ret \in all_times

\* line k of the report read is the header of a file with data
DataHeader(k) == parse.lines[k].kind = "header" /\ ~parse.lines[k].no_data

\* the lines from i to j hold no "CSV File" line
SameBlock(i, j) ==
    \A n \in i..j : parse.lines[n].kind \notin {"header", "foreign"}

\* the entry v has its five fields from the block that header k opens
FromBlock(k, v) ==
    \E i, j \in (k + 1)..Len(parse.lines) :
        /\ SameBlock(k + 1, IF i < j THEN j ELSE i)
        /\ parse.lines[i].kind = "total"
        /\ parse.lines[j].kind = "counts"
        /\ v["Total Tracks"] = Some(parse.lines[i].numbers[1])
        /\ v["Enter"] = Some(parse.lines[j].numbers[1])
        /\ v["Exit"] = Some(parse.lines[j].numbers[2])
        /\ v["Inside"] = Some(parse.lines[j].numbers[3])
        /\ v["Outside"] = Some(parse.lines[j].numbers[4])

\* C23: whatever lines the report holds, every entry of the dictionary
\* returned by parse_tracking_data is filed under the date and the formatted
\* time of a header line "CSV File: <date>_<time>.csv" not marked "No Data
\* Found", and has its five fields set from the block of that header; blocks
\* marked "No Data Found" and lines before the first header add no entry.
C23_EntriesFromHeaders ==
    pc = "returned" =>
        \A key \in DOMAIN parse.tracking_data :
            \E k \in 1..Len(parse.lines) :
                /\ DataHeader(k)
                /\ key[1] = Some(parse.lines[k].date)
                /\ key[2] = format_time(parse.lines[k].time)
                /\ DOMAIN parse.tracking_data[key] = Fields
                /\ FromBlock(k, parse.tracking_data[key])

\* the input the tracking core is specified for: the three columns, at least
\* 5 records, and a frame range of at least 5
ValidInput(file) ==
    /\ file.columns
    /\ file.records >= MinRecords
    /\ file.span >= MinFrameSpan

\* the file of the folder with this base name
FileNamed(name) == CHOOSE file \in Range(csv_files) : file.name = name

\* the rows of track-stats.csv written for this base name
RowsNamed(name) == {n \in 1..Len(stats_csv) : stats_csv[n].name = name}

\* C21: in track_insects the tracking core runs only for a file that has
\* the three columns, at least 5 records and a frame range of at least 5; a
\* file that load_csv rejects leaves the engine with an empty track list,
\* zero counters and the frame range 1..1, and has exactly one row in
\* track-stats.csv, a row of zeros.
C21_CoreOnlyOnValidInput ==
    /\ pc \in {"loop", "done"} => ValidInput(CurrentFile)
    /\ \A k \in 1..Len(ran) :
          /\ ran[k].what = "tracked" => ValidInput(FileNamed(ran[k].name))
          /\ ran[k].what = "rejected" =>
                /\ ~ValidInput(FileNamed(ran[k].name))
                /\ Cardinality(RowsNamed(ran[k].name)) = 1
                /\ \A n \in RowsNamed(ran[k].name) :
                      stats_csv[n] = StatsRow(ran[k].name, 0, 0, ZeroCounter)
    /\ (ran # <<>> /\ ran[Len(ran)].what = "rejected" /\ pc \in {"files", "idle"}) =>
          /\ self_all_tracks = <<>>
          /\ counter = ZeroCounter
          /\ start_frame = 1
          /\ end_frame = 1

\* two invocations have ended; the first tracked a file, with a track that
\* was kept, and rejected another right after it
C21_Witness ==
    /\ pc = "idle"
    /\ calls = 2
    /\ Len(ran) = 4
    /\ ran[1].what = "tracked"
    /\ ran[2].what = "rejected"
    /\ stats_csv[1].tracks >= 1
    /\ stats_csv[2].records = 0
    /\ self_all_tracks = <<>>

\* the sizes of the two reports before the k-th file taken
RowsBefore(k) == IF k = 1 THEN 0 ELSE ran[k - 1].rows

BlocksBefore(k) == IF k = 1 THEN 0 ELSE ran[k - 1].blocks

\* the k-th file taken was tracked or rejected
Processed(k) == ran[k].what \in {"tracked", "rejected"}

\* C22: over all invocations of track_insects a file is processed at most
\* once: a file whose name is in a row of track-stats.csv is skipped and
\* nothing is appended, a file that is tracked or rejected appends exactly
\* one row (and one block), and a second invocation on the same folder
\* appends no row to track-stats.csv and no block to track-stats.txt.
C22_EachFileAtMostOnce ==
    /\ Len(stats_csv) = (IF ran = <<>> THEN 0 ELSE ran[Len(ran)].rows)
    /\ Len(stats_txt) = (IF ran = <<>> THEN 0 ELSE ran[Len(ran)].blocks)
    /\ \A k \in 1..Len(ran) :
          /\ (\E n \in 1..RowsBefore(k) : stats_csv[n].name = ran[k].name) =>
                ~Processed(k)
          /\ Processed(k) =>
                /\ ran[k].rows = RowsBefore(k) + 1
                /\ ran[k].blocks = BlocksBefore(k) + 1
                /\ stats_csv[ran[k].rows].name = ran[k].name
                /\ stats_txt[ran[k].blocks].name = ran[k].name
                /\ \A j \in 1..(k - 1) : Processed(j) => ran[j].name # ran[k].name
          /\ ~Processed(k) =>
                /\ ran[k].rows = RowsBefore(k)
                /\ ran[k].blocks = BlocksBefore(k)
          /\ ran[k].call >= 2 => ~Processed(k)

\* a second invocation has ended: it skipped the file the first had tracked
\* and the file the first had rejected
C22_Witness ==
    /\ pc = "idle"
    /\ calls = 2
    /\ \E i, j, k, l \in 1..Len(ran) :
          /\ ran[i].call = 1 /\ ran[i].what = "tracked"
          /\ ran[j].call = 1 /\ ran[j].what = "rejected"
          /\ ran[k].call = 2 /\ ran[k].what = "already processed"
          /\ ran[k].name = ran[i].name
          /\ ran[l].call = 2 /\ ran[l].what = "already processed"
          /\ ran[l].name = ran[j].name
    /\ Len(stats_csv) = 2
    /\ Len(stats_txt) = 2

====
